---- MODULE Spec2Model ----
(***************************************************************************)
(* Horizontal sync (hsync) of cast notes between a local cast and a peer.  *)
(*                                                                         *)
(* The index (EphemeralIndex, FileRec) follows                             *)
(* libs/cast/sync/src/casting/cast/sync/index.py.  The decision engine and *)
(* the action executor live in casting/cast/sync/hsync.py, which is not    *)
(* part of the source tree at hand; they follow spec.md 4.7 and 4.8.       *)
(*                                                                         *)
(* Readings of spec.md taken where it leaves a choice:                     *)
(*  - the peer FileRec of a pair is the peer's file with the same cast-id; *)
(*    at first contact (no baseline) a file with another cast-id sitting   *)
(*    at the local relpath stands in for it: rule 5 of the decision table  *)
(*    compares the two cast-ids only in its no-baseline branch;            *)
(*  - PUSH / PULL onto an existing copy rewrite that copy where it is, a   *)
(*    path difference is left to the rename rule of the next run;          *)
(*  - every create or move whose destination is taken by a file with       *)
(*    another cast-id goes through _safe_dest ("collision-safe pathing");  *)
(*  - baselines are written and removed on both sides of a pair.           *)
(***************************************************************************)
EXTENDS Integers, Sequences, FiniteSets, TLC

\* ---------------------------------------------------------------- bounds
MaxContent == 3
MaxBody == 2
MaxKeys == 3
MaxEntries == 2
MaxAlt == 3

\* ------------------------------------------------------------- universes
Casts == {"A", "B"}
Cids == {"a", "b"}
CidOrder == <<"a", "b">>
Stems == {"P", "Q", "R"}
Contents == 1..MaxContent

NoFile == [none |-> TRUE]
NoRec == [absent |-> TRUE]
NoBase == [nobase |-> TRUE]
NoReport == [noreport |-> TRUE]
NoCall == [nocall |-> TRUE]

Other(x) == IF x = "A" THEN "B" ELSE "A"

\* A relpath: the plain name (n = 0), or the name carrying the suffix
\* "(~from <src>)" (n = 1), or that suffix followed by a counter n >= 2.
BasePath(stem) == [stem |-> stem, src |-> "", n |-> 0]
AltPath(base, suffix, i) == [stem |-> base.stem, src |-> suffix, n |-> i]

\* fs, base, peers and report are the casts under hsync; args and result
\* are the argument and the return value of a call of one of the pure
\* functions of yamlio (NoCall while hsync is what is being run).
VARIABLES fs, base, peers, report, args, result

vars == <<fs, base, peers, report, args, result>>

\* ------------------------------------------------------------ the digest
\* A collision-free hash of the front matter (cast-id, cast-hsync) and the
\* body; last-updated is not part of a file's modelled content.
compute_digest(cid, v) == <<cid, v>>

\* -------------------------------------------------------------- the index
\* Faulty variants of the record built for a file: the digest taken over
\* the front matter alone, the digest taken over the path as well, and the
\* relpath cut down so that every file of a vault gets the same one.
FileRecOf_digest_without_body(disk, x, cid) ==
    [cast_id |-> cid,
     relpath |-> disk[x][cid].relpath,
     digest |-> compute_digest(cid, 0),
     peers |-> peers[cid]]

FileRecOf_digest_with_path(disk, x, cid) ==
    [cast_id |-> cid,
     relpath |-> disk[x][cid].relpath,
     digest |-> compute_digest(cid, <<disk[x][cid].v, disk[x][cid].relpath>>),
     peers |-> peers[cid]]

FileRecOf_relpath_lost(disk, x, cid) ==
    [cast_id |-> cid,
     relpath |-> BasePath("P"),
     digest |-> compute_digest(cid, disk[x][cid].v),
     peers |-> peers[cid]]

FileRecOf(disk, x, cid) ==
    [cast_id |-> cid,
     relpath |-> disk[x][cid].relpath,
     digest |-> compute_digest(cid, disk[x][cid].v),
     peers |-> peers[cid]]

by_id(disk, x) == [cid \in {c \in Cids : disk[x][c] # NoFile} |-> FileRecOf(disk, x, cid)]

get_by_id(disk, x, cid) ==
    IF cid \in DOMAIN by_id(disk, x) THEN by_id(disk, x)[cid] ELSE NoRec

get_by_path(disk, x, relpath) ==
    LET hit == {cid \in DOMAIN by_id(disk, x) : by_id(disk, x)[cid].relpath = relpath}
    IN IF hit = {} THEN NoRec ELSE by_id(disk, x)[CHOOSE cid \in hit : TRUE]

Existing(disk, x) == {by_id(disk, x)[cid].relpath : cid \in DOMAIN by_id(disk, x)}

\* ---------------------------------------------------------- _safe_dest
RECURSIVE safe_dest_from(_, _, _, _)
safe_dest_from(b, suffix, existing, i) ==
    IF AltPath(b, suffix, i) \notin existing
    THEN AltPath(b, suffix, i)
    ELSE safe_dest_from(b, suffix, existing, i + 1)

\* Faulty variants: the destination is returned without looking at what
\* exists, and the existence test is inverted.
safe_dest_unchecked(b, suffix, existing) == b

safe_dest_inverted(b, suffix, existing) ==
    IF b \in existing THEN b ELSE safe_dest_from(b, suffix, existing, 1)

\* Faulty variant: the plain suffixed name is skipped, the counter comes
\* first.
safe_dest_skips_plain_suffix(b, suffix, existing) ==
    IF b \notin existing THEN b ELSE safe_dest_from(b, suffix, existing, 2)

safe_dest(b, suffix, existing) ==
    IF b \notin existing THEN b ELSE safe_dest_from(b, suffix, existing, 1)

\* ------------------------------------------------- decision engine (4.7)
Act(op) == [op |-> op]
Conflict(kind) == [op |-> "CONFLICT", kind |-> kind]
Rename(op, old, new) == [op |-> op, old |-> old, new |-> new]
SafePushCopy(to_peer_path, suffix) ==
    [op |-> "SAFE_PUSH_COPY", to_peer_path |-> to_peer_path, suffix |-> suffix]

\* "a path pair is present in baseline that matches neither side"
RenameConflict(local, peer, baseline) ==
    /\ baseline # NoBase
    /\ baseline.rel # local.relpath
    /\ baseline.peer_rel # peer.relpath

\* Rule 1: both absent.
DecideBothAbsent(baseline) ==
    IF baseline # NoBase THEN Act("CLEAR_BASELINE") ELSE Act("NO_OP")

\* Faulty variant of rule 2: the baseline is not consulted, so a note
\* deleted locally is adopted again from the peer.
DecideLocalAbsent_adopts(peer, baseline, mode) == Act("PULL")

\* Rule 2: local absent, peer present.
DecideLocalAbsent(peer, baseline, mode) ==
    IF baseline = NoBase THEN Act("PULL")
    ELSE IF peer.digest = baseline.digest
         THEN IF mode = "live" THEN Act("DELETE_PEER") ELSE Act("CLEAR_BASELINE")
         ELSE Conflict("content")

\* Rule 3: local present, peer absent.
DecidePeerAbsent(local, baseline, mode, declared) ==
    IF baseline = NoBase
    THEN IF declared THEN Act("PUSH") ELSE Act("NO_OP")
    ELSE IF local.digest = baseline.digest THEN Act("DELETE_LOCAL")
         ELSE IF mode = "live" THEN Act("PUSH") ELSE Act("NO_OP")

\* Rule 4: both present, equal digests.
DecideSameDigest(local, peer, baseline, mode) ==
    IF local.relpath = peer.relpath THEN Act("NO_OP")
    ELSE IF RenameConflict(local, peer, baseline) THEN Conflict("rename")
         ELSE IF mode = "live"
              THEN Rename("RENAME_PEER", peer.relpath, local.relpath)
              ELSE Rename("RENAME_LOCAL", local.relpath, peer.relpath)

\* Rule 5: both present, digests differ.
DecideDiffDigest(local, peer, baseline, mode, local_cast_name) ==
    IF baseline = NoBase
    THEN IF peer.cast_id # local.cast_id
         THEN SafePushCopy(peer.relpath, local_cast_name)
         ELSE Conflict("content")
    ELSE IF local.digest = baseline.digest THEN Act("PULL")
         ELSE IF peer.digest = baseline.digest
              THEN IF mode = "live" THEN Act("PUSH") ELSE Act("NO_OP")
              ELSE Conflict("content")

\* The decision table, first match wins.
decide_sync(local, peer, baseline, mode, declared, local_cast_name) ==
    IF local = NoRec /\ peer = NoRec THEN DecideBothAbsent(baseline)
    ELSE IF local = NoRec THEN DecideLocalAbsent(peer, baseline, mode)
    ELSE IF peer = NoRec THEN DecidePeerAbsent(local, baseline, mode, declared)
    ELSE IF local.digest = peer.digest THEN DecideSameDigest(local, peer, baseline, mode)
    ELSE DecideDiffDigest(local, peer, baseline, mode, local_cast_name)

\* ------------------------------------------------- sync-state store (4.5)
\* A state of the two casts: s.fs is the notes on disk, s.base the
\* baselines of each cast's .cast/syncstate.json, keyed (cast_id, peer).
Baseline(digest, rel, peer_rel) == [digest |-> digest, rel |-> rel, peer_rel |-> peer_rel]

SetBase(s, x, y, cid, digest, rel, peer_rel) ==
    [s EXCEPT !.base[x][cid][y] = Baseline(digest, rel, peer_rel),
              !.base[y][cid][x] = Baseline(digest, peer_rel, rel)]

ClearBase(s, x, y, cid) ==
    [s EXCEPT !.base[x][cid][y] = NoBase, !.base[y][cid][x] = NoBase]

\* Writing or moving a note to relpath replaces whatever file is there.
PutFile(s, x, cid, relpath, v) ==
    [s EXCEPT !.fs[x] = [c \in Cids |->
        IF c = cid THEN [relpath |-> relpath, v |-> v]
        ELSE IF s.fs[x][c] # NoFile /\ s.fs[x][c].relpath = relpath THEN NoFile
        ELSE s.fs[x][c]]]

DelFile(s, x, cid) == [s EXCEPT !.fs[x][cid] = NoFile]

\* ------------------------------------------------- action executor (4.8)
ExecNoOp(s, x, y, cid, local, peer) ==
    IF local # NoRec /\ peer # NoRec /\ local.digest = peer.digest
    THEN SetBase(s, x, y, cid, local.digest, local.relpath, peer.relpath)
    ELSE s

ExecPush(s, x, y, cid, local, peer) ==
    LET v == s.fs[x][cid].v
        dest == IF peer # NoRec THEN peer.relpath
                ELSE safe_dest(local.relpath, x, Existing(s.fs, y))
    IN SetBase(PutFile(s, y, cid, dest, v), x, y, cid, local.digest, local.relpath, dest)

ExecPull(s, x, y, cid, local, peer) ==
    LET v == s.fs[y][cid].v
        dest == IF local # NoRec THEN local.relpath
                ELSE safe_dest(peer.relpath, y, Existing(s.fs, x))
    IN SetBase(PutFile(s, x, cid, dest, v), x, y, cid, peer.digest, dest, peer.relpath)

ExecRenamePeer(s, x, y, cid, local, act) ==
    LET dest == safe_dest(act.new, x, Existing(s.fs, y))
    IN SetBase(PutFile(s, y, cid, dest, s.fs[y][cid].v),
               x, y, cid, local.digest, local.relpath, dest)

ExecRenameLocal(s, x, y, cid, peer, act) ==
    LET dest == safe_dest(act.new, y, Existing(s.fs, x))
    IN SetBase(PutFile(s, x, cid, dest, s.fs[x][cid].v),
               x, y, cid, peer.digest, dest, peer.relpath)

ExecSafePushCopy(s, x, y, cid, local, act) ==
    LET dest == safe_dest(act.to_peer_path, act.suffix, Existing(s.fs, y))
    IN SetBase(PutFile(s, y, cid, dest, s.fs[x][cid].v),
               x, y, cid, local.digest, local.relpath, dest)

\* Non-interactive run: a conflict is recorded and no file is touched.
Execute(s, x, y, cid, local, peer, act) ==
    CASE act.op = "NO_OP" -> ExecNoOp(s, x, y, cid, local, peer)
      [] act.op = "PUSH" -> ExecPush(s, x, y, cid, local, peer)
      [] act.op = "PULL" -> ExecPull(s, x, y, cid, local, peer)
      [] act.op = "RENAME_PEER" -> ExecRenamePeer(s, x, y, cid, local, act)
      [] act.op = "RENAME_LOCAL" -> ExecRenameLocal(s, x, y, cid, peer, act)
      [] act.op = "SAFE_PUSH_COPY" -> ExecSafePushCopy(s, x, y, cid, local, act)
      [] act.op = "DELETE_PEER" -> ClearBase(DelFile(s, y, cid), x, y, cid)
      [] act.op = "DELETE_LOCAL" -> ClearBase(DelFile(s, x, cid), x, y, cid)
      [] act.op = "CLEAR_BASELINE" -> ClearBase(s, x, y, cid)
      [] act.op = "CONFLICT" -> s

\* ------------------------------------------------------- one hsync run
\* The pairs of a run from x: the notes of x that list y, the baselines x
\* holds for y, and the notes of y that list x.
InScope(s, x, y, cid) ==
    \/ s.fs[x][cid] # NoFile /\ peers[cid][y] # "none"
    \/ s.base[x][cid][y] # NoBase
    \/ s.fs[y][cid] # NoFile /\ peers[cid][x] # "none"

LocalRec(s, x, cid) == get_by_id(s.fs, x, cid)

PeerRec(s, x, y, cid) ==
    LET local == LocalRec(s, x, cid)
        same == get_by_id(s.fs, y, cid)
    IN IF same # NoRec THEN same
       ELSE IF local # NoRec /\ s.base[x][cid][y] = NoBase
            THEN get_by_path(s.fs, y, local.relpath)
            ELSE NoRec

Plan(s, x, y, cid) ==
    IF InScope(s, x, y, cid)
    THEN decide_sync(LocalRec(s, x, cid), PeerRec(s, x, y, cid), s.base[x][cid][y],
                     peers[cid][y], peers[cid][y] # "none", x)
    ELSE Act("NONE")

\* Execute the plan made on s0, pair by pair in cast_id order.
RECURSIVE RunFrom(_, _, _, _, _)
RunFrom(s0, s, x, y, i) ==
    IF i > Len(CidOrder) THEN s
    ELSE LET cid == CidOrder[i]
             act == Plan(s0, x, y, cid)
             next == IF act.op = "NONE" THEN s
                     ELSE Execute(s, x, y, cid, LocalRec(s0, x, cid),
                                  PeerRec(s0, x, y, cid), act)
         IN RunFrom(s0, next, x, y, i + 1)

RunCast(s, x) == RunFrom(s, s, x, Other(x), 1)

PlanOf(s, x) == [cid \in Cids |-> Plan(s, x, Other(x), cid)]

\* Cascade: the live peers touched by a non-NO_OP action of the run.
Frontier(s, x) ==
    {y \in Casts \ {x} :
        \E cid \in Cids : /\ Plan(s, x, y, cid).op \notin {"NONE", "NO_OP"}
                          /\ peers[cid][y] = "live"}

\* Faulty variant: conflicts are not counted in the exit status.
ExitCode_ignores_conflicts(plan) == 0

ExitCode(plan) == IF \E cid \in Cids : plan[cid].op = "CONFLICT" THEN 3 ELSE 0

\* ------------------------------------------------------------------ Init
\* Note "a" lists both casts, B either live or watch; note "b" is a note
\* of B alone that may sit at path P before A ever syncs.
Init ==
    /\ peers \in {[a |-> [A |-> "live", B |-> m], b |-> [A |-> "none", B |-> "live"]] :
                    m \in {"live", "watch"}}
    /\ fs \in {[A |-> [a |-> NoFile, b |-> NoFile], B |-> [a |-> NoFile, b |-> sb]] :
                 sb \in {NoFile, [relpath |-> BasePath("P"), v |-> 1]}}
    /\ base = [x \in Casts |-> [cid \in Cids |-> [y \in Casts |-> NoBase]]]
    /\ report = NoReport
    /\ args = NoCall
    /\ result = NoCall

\* ------------------------------------------------- the users of the casts
UserCreate(x, stem, v) ==
    /\ fs[x]["a"] = NoFile
    /\ BasePath(stem) \notin Existing(fs, x)
    /\ fs' = [fs EXCEPT ![x]["a"] = [relpath |-> BasePath(stem), v |-> v]]
    /\ report' = NoReport
    /\ UNCHANGED <<base, peers, args, result>>

UserEdit(x, v) ==
    /\ fs[x]["a"] # NoFile
    /\ fs[x]["a"].v # v
    /\ fs' = [fs EXCEPT ![x]["a"].v = v]
    /\ report' = NoReport
    /\ UNCHANGED <<base, peers, args, result>>

UserMove(x, stem) ==
    /\ fs[x]["a"] # NoFile
    /\ BasePath(stem) \notin Existing(fs, x)
    /\ fs' = [fs EXCEPT ![x]["a"].relpath = BasePath(stem)]
    /\ report' = NoReport
    /\ UNCHANGED <<base, peers, args, result>>

UserDelete(x) ==
    /\ fs[x]["a"] # NoFile
    /\ fs' = [fs EXCEPT ![x]["a"] = NoFile]
    /\ report' = NoReport
    /\ UNCHANGED <<base, peers, args, result>>

\* ----------------------------------------------------------------- hsync
\* hsync(root = x, {non_interactive, cascade}): plan, execute, write the
\* baselines back, then re-invoke from the live peers reached (x is
\* visited, so the cascade stops after them).  The report of the run
\* names the cast, the state the run started from, the planned action of
\* every pair, the plan of the cascaded run and the exit status; it stands
\* until a user touches a note again.
Hsync(x, cascade) ==
    LET s0 == [fs |-> fs, base |-> base]
        s1 == RunCast(s0, x)
        hop == cascade /\ Frontier(s0, x) # {}
        s2 == IF hop THEN RunCast(s1, Other(x)) ELSE s1
        plan2 == IF hop THEN PlanOf(s1, Other(x)) ELSE [cid \in Cids |-> Act("NONE")]
    IN /\ fs' = s2.fs
       /\ base' = s2.base
       /\ report' = [cast |-> x, before |-> s0, plan |-> PlanOf(s0, x), cascade |-> plan2,
                     exit |-> IF ExitCode(PlanOf(s0, x)) = 3 \/ ExitCode(plan2) = 3
                              THEN 3 ELSE 0]
       /\ UNCHANGED <<peers, args, result>>

Next ==
    \/ \E x \in Casts, stem \in Stems, v \in Contents : UserCreate(x, stem, v)
    \/ \E x \in Casts, v \in Contents : UserEdit(x, v)
    \/ \E x \in Casts, stem \in Stems : UserMove(x, stem)
    \/ \E x \in Casts : UserDelete(x)
    \/ \E x \in Casts, cascade \in BOOLEAN : Hsync(x, cascade)

Spec == Init /\ [][Next]_vars

TypeOK == report = NoReport \/ report.exit \in {0, 3}

\* ------------------------------------------------- hsync --file
\* build_ephemeral_index with limit_file: every set of cast-ids the index
\* can hold.  A limit that is the path of a file gives that file alone.
\* Any other limit is taken for a cast-id: the files are scanned in the
\* order rglob yields them, each one is added, and the scan stops after
\* the file carrying that id, so the index holds it together with the
\* files scanned before it, or every file when none carries it.
NoLimit == [nolimit |-> TRUE]
PathLimit(relpath) == [relpath |-> relpath]
IdLimit(cid) == [cast_id |-> cid]

build_ephemeral_index(disk, x, limit_file) ==
    LET present == {cid \in Cids : disk[x][cid] # NoFile}
        named == IF limit_file = NoLimit THEN {}
                 ELSE IF "relpath" \in DOMAIN limit_file
                      THEN {cid \in present : disk[x][cid].relpath = limit_file.relpath}
                      ELSE {cid \in present : cid = limit_file.cast_id}
    IN IF named = {} THEN {present}
       ELSE IF "relpath" \in DOMAIN limit_file THEN {named}
       ELSE {named \cup earlier : earlier \in SUBSET (present \ named)}

\* A run restricted with --file plans the pairs of the notes its local
\* index holds; a note outside the index is not looked at, whatever the
\* baselines say.
PlanIndexed(s, x, y, cid, index) ==
    IF cid \in index /\ InScope(s, x, y, cid) THEN Plan(s, x, y, cid) ELSE Act("NONE")

RECURSIVE RunIndexed(_, _, _, _, _, _)
RunIndexed(s0, s, x, y, i, index) ==
    IF i > Len(CidOrder) THEN s
    ELSE LET cid == CidOrder[i]
             act == PlanIndexed(s0, x, y, cid, index)
             next == IF act.op = "NONE" THEN s
                     ELSE Execute(s, x, y, cid, LocalRec(s0, x, cid),
                                  PeerRec(s0, x, y, cid), act)
         IN RunIndexed(s0, next, x, y, i + 1, index)

HsyncFile(x, limit_file) ==
    LET s0 == [fs |-> fs, base |-> base]
    IN \E index \in build_ephemeral_index(fs, x, limit_file) :
          LET s1 == RunIndexed(s0, s0, x, Other(x), 1, index)
              plan == [cid \in Cids |-> PlanIndexed(s0, x, Other(x), cid, index)]
          IN /\ fs' = s1.fs
             /\ base' = s1.base
             /\ report' = [cast |-> x, before |-> s0, plan |-> plan,
                           cascade |-> [cid \in Cids |-> Act("NONE")],
                           exit |-> ExitCode(plan), file |-> limit_file]
             /\ UNCHANGED <<peers, args, result>>

\* Two notes of A that list both casts, as in
\* test_file_filter_prevents_spurious_deletions.
FileInit ==
    /\ peers = [cid \in Cids |-> [y \in Casts |-> "live"]]
    /\ fs = [A |-> [a |-> [relpath |-> BasePath("P"), v |-> 1],
                    b |-> [relpath |-> BasePath("Q"), v |-> 1]],
             B |-> [a |-> NoFile, b |-> NoFile]]
    /\ base = [x \in Casts |-> [cid \in Cids |-> [y \in Casts |-> NoBase]]]
    /\ report = NoReport
    /\ args = NoCall
    /\ result = NoCall

UserEditNote(x, cid, v) ==
    /\ fs[x][cid] # NoFile
    /\ fs[x][cid].v # v
    /\ fs' = [fs EXCEPT ![x][cid].v = v]
    /\ report' = NoReport
    /\ UNCHANGED <<base, peers, args, result>>

UserDeleteNote(x, cid) ==
    /\ fs[x][cid] # NoFile
    /\ fs' = [fs EXCEPT ![x][cid] = NoFile]
    /\ report' = NoReport
    /\ UNCHANGED <<base, peers, args, result>>

Limits == {PathLimit(BasePath("P")), PathLimit(BasePath("Q"))} \cup {IdLimit(cid) : cid \in Cids}

FileNext ==
    \/ \E x \in Casts, cid \in Cids, v \in 1..MaxBody : UserEditNote(x, cid, v)
    \/ \E x \in Casts, cid \in Cids : UserDeleteNote(x, cid)
    \/ \E x \in Casts : Hsync(x, FALSE)
    \/ \E x \in Casts, limit_file \in Limits : HsyncFile(x, limit_file)

SpecFile == FileInit /\ [][FileNext]_vars

\* ------------------------------------------------- hsync --cascade
\* spec.md 4.8: cascade re-invokes sync from each live peer reached during
\* the run, as a breadth-first walk over the casts with a visited set.
\* One step of the walk is one sync from the cast at the head of the
\* queue against each of the peers its notes name, in turn.
Vaults == {"A", "B", "C"}
VaultOrder == <<"A", "B", "C">>

\* A live peer is reached when an action other than NO_OP is planned for
\* one of its pairs.
Reached(s, x, y) ==
    \E cid \in Cids : /\ Plan(s, x, y, cid).op \notin {"NONE", "NO_OP"}
                      /\ peers[cid][y] = "live"

\* The sync of x against one peer y: the store it leaves, y added to the
\* reached peers, the conflicts recorded.
StepPeer(acc, x, y) ==
    [s |-> RunFrom(acc.s, acc.s, x, y, 1),
     reached |-> IF Reached(acc.s, x, y) THEN acc.reached \cup {y} ELSE acc.reached,
     conflicts |-> acc.conflicts
        \cup {<<x, y, cid>> : cid \in {c \in Cids : Plan(acc.s, x, y, c).op = "CONFLICT"}}]

RECURSIVE RunPeersOf(_, _, _)
RunPeersOf(accs, x, i) ==
    IF i > Len(VaultOrder) THEN accs
    ELSE IF VaultOrder[i] = x THEN RunPeersOf(accs, x, i + 1)
         ELSE RunPeersOf({StepPeer(acc, x, VaultOrder[i]) : acc \in accs}, x, i + 1)

RunPeers(acc, x, i) == CHOOSE out \in RunPeersOf({acc}, x, i) : TRUE

\* Faulty variant: the visited set is not consulted.
Unvisited_ignores_visited(reached, visited) == reached

\* The casts a step adds to the queue.
Unvisited(reached, visited) == reached \ visited

InOrder(set) == SelectSeq(VaultOrder, LAMBDA y : y \in set)

NoRun == IF report = NoReport THEN TRUE ELSE report.queue = <<>>

\* The lists of the notes: a names every cast; or a names A and B and b
\* names B and C; or a names C as a watch peer.
CascadeInit ==
    /\ peers \in {[a |-> [A |-> "live", B |-> "live", C |-> "live"],
                   b |-> [A |-> "none", B |-> "none", C |-> "none"]],
                  [a |-> [A |-> "live", B |-> "live", C |-> "none"],
                   b |-> [A |-> "none", B |-> "live", C |-> "live"]],
                  [a |-> [A |-> "live", B |-> "live", C |-> "watch"],
                   b |-> [A |-> "none", B |-> "none", C |-> "none"]]}
    /\ fs = [x \in Vaults |-> [cid \in Cids |-> NoFile]]
    /\ base = [x \in Vaults |-> [cid \in Cids |-> [y \in Vaults |-> NoBase]]]
    /\ report = NoReport
    /\ args = NoCall
    /\ result = NoCall

NotePath(cid) == IF cid = "a" THEN BasePath("P") ELSE BasePath("Q")

\* Note a is written and rewritten, note b is written once.
UserWriteNote(x, cid, v) ==
    /\ NoRun
    /\ peers[cid][x] # "none"
    /\ cid = "a" \/ v = 1
    /\ IF fs[x][cid] = NoFile THEN TRUE ELSE fs[x][cid].v # v
    /\ fs' = [fs EXCEPT ![x][cid] =
                 IF fs[x][cid] = NoFile THEN [relpath |-> NotePath(cid), v |-> v]
                 ELSE [fs[x][cid] EXCEPT !.v = v]]
    /\ report' = NoReport
    /\ UNCHANGED <<base, peers, args, result>>

UserRemoveNote(x, cid) ==
    /\ NoRun
    /\ UserDeleteNote(x, cid)

CascadeStart(x) ==
    /\ NoRun
    /\ report' = [cast |-> x, before |-> [fs |-> fs, base |-> base],
                  queue |-> <<x>>, visited |-> {x}, reached |-> {},
                  runs |-> [y \in Vaults |-> 0], conflicts |-> {}, exit |-> 0]
    /\ UNCHANGED <<fs, base, peers, args, result>>

CascadeStep ==
    /\ report # NoReport
    /\ report.queue # <<>>
    /\ \E out \in {RunPeers([s |-> [fs |-> fs, base |-> base], reached |-> {},
                            conflicts |-> {}], Head(report.queue), 1)} :
       LET x == Head(report.queue)
           new == Unvisited(out.reached, report.visited)
       IN /\ fs' = out.s.fs
          /\ base' = out.s.base
          /\ report' = [report EXCEPT
                          !.queue = Tail(report.queue) \o InOrder(new),
                          !.visited = report.visited \cup new,
                          !.reached = report.reached \cup out.reached,
                          !.runs[x] = IF report.runs[x] < 2 THEN report.runs[x] + 1 ELSE 2,
                          !.conflicts = report.conflicts \cup out.conflicts,
                          !.exit = IF out.conflicts # {} THEN 3 ELSE report.exit]
    /\ UNCHANGED <<peers, args, result>>

CascadeNext ==
    \/ \E x \in Vaults, cid \in Cids, v \in 1..MaxBody : UserWriteNote(x, cid, v)
    \/ \E x \in Vaults, cid \in Cids : UserRemoveNote(x, cid)
    \/ \E x \in Vaults : CascadeStart(x)
    \/ CascadeStep

SpecCascade == CascadeInit /\ [][CascadeNext]_vars /\ WF_vars(CascadeStep)

\* ------------------------------------------------- interactive hsync
\* spec.md 4.8: in interactive mode a CONFLICT is put to the user, who
\* answers keep_local, keep_peer or cancel.  keep_peer gives the local side
\* the peer's content and, where the paths differ, the peer's path;
\* keep_local gives the peer the local content where it is (a local copy
\* that is gone removes the peer's); cancel leaves the pair alone.  A run
\* reached by cascade has no answers left and records its conflicts; a run
\* that meets no conflict reads no answer (recorded as cancel).
Answers == {"keep_local", "keep_peer", "cancel"}

\* Faulty variant: the peer's content is taken, its path is not.
ResolveKeepPeer_keeps_path(s, x, y, cid, local, peer) ==
    LET dest == IF local # NoRec THEN local.relpath
                ELSE safe_dest(peer.relpath, y, Existing(s.fs, x))
    IN SetBase(PutFile(s, x, cid, dest, s.fs[y][cid].v),
               x, y, cid, peer.digest, dest, peer.relpath)

ResolveKeepPeer(s, x, y, cid, local, peer) ==
    LET dest == IF local # NoRec /\ local.relpath = peer.relpath THEN local.relpath
                ELSE safe_dest(peer.relpath, y, Existing(s.fs, x))
    IN SetBase(PutFile(s, x, cid, dest, s.fs[y][cid].v),
               x, y, cid, peer.digest, dest, peer.relpath)

ResolveKeepLocal(s, x, y, cid, local, peer) ==
    IF local = NoRec THEN ClearBase(DelFile(s, y, cid), x, y, cid)
    ELSE SetBase(PutFile(s, y, cid, peer.relpath, s.fs[x][cid].v),
                 x, y, cid, local.digest, local.relpath, peer.relpath)

Resolve(s, x, y, cid, local, peer, answer) ==
    CASE answer = "keep_peer" -> ResolveKeepPeer(s, x, y, cid, local, peer)
      [] answer = "keep_local" -> ResolveKeepLocal(s, x, y, cid, local, peer)
      [] answer = "cancel" -> s

RECURSIVE RunPromptFrom(_, _, _, _, _, _)
RunPromptFrom(s0, s, x, y, i, answer) ==
    IF i > Len(CidOrder) THEN s
    ELSE LET cid == CidOrder[i]
             act == Plan(s0, x, y, cid)
             local == LocalRec(s0, x, cid)
             peer == PeerRec(s0, x, y, cid)
             next == IF act.op = "NONE" THEN s
                     ELSE IF act.op = "CONFLICT"
                          THEN Resolve(s, x, y, cid, local, peer, answer)
                          ELSE Execute(s, x, y, cid, local, peer, act)
         IN RunPromptFrom(s0, next, x, y, i + 1, answer)

HsyncPrompt(x, cascade, answer) ==
    LET s0 == [fs |-> fs, base |-> base]
        s1 == RunPromptFrom(s0, s0, x, Other(x), 1, answer)
        hop == cascade /\ Frontier(s0, x) # {}
        s2 == IF hop THEN RunCast(s1, Other(x)) ELSE s1
        plan2 == IF hop THEN PlanOf(s1, Other(x)) ELSE [cid \in Cids |-> Act("NONE")]
    IN /\ ExitCode(PlanOf(s0, x)) = 3 \/ answer = "cancel"
       /\ fs' = s2.fs
       /\ base' = s2.base
       /\ report' = [cast |-> x, before |-> s0, plan |-> PlanOf(s0, x), cascade |-> plan2,
                     answer |-> answer]
       /\ UNCHANGED <<peers, args, result>>

NextPrompt ==
    \/ \E x \in Casts, stem \in Stems, v \in Contents : UserCreate(x, stem, v)
    \/ \E x \in Casts, v \in Contents : UserEdit(x, v)
    \/ \E x \in Casts, stem \in Stems : UserMove(x, stem)
    \/ \E x \in Casts : UserDelete(x)
    \/ \E x \in Casts, answer \in Answers : HsyncPrompt(x, FALSE, answer)

\* Interactive runs are made with --no-cascade, as in
\* test_rename_conflict_keep_peer_adopts_peer_path.
SpecPrompt == Init /\ [][NextPrompt]_vars

\* ---------------------------------------- the decision engine on its own
\* Both sides hold note "a"; every content, path and baseline is drawn,
\* and one step applies the decision engine to the pair (a, B).
DecideInit ==
    /\ peers \in {[a |-> [A |-> "live", B |-> m], b |-> [A |-> "none", B |-> "live"]] :
                    m \in {"live", "watch"}}
    /\ fs \in {[A |-> [a |-> [relpath |-> BasePath(p), v |-> v], b |-> NoFile],
                B |-> [a |-> [relpath |-> BasePath(q), v |-> w], b |-> NoFile]] :
                 p \in Stems, q \in Stems, v \in Contents, w \in Contents}
    /\ base \in {[x \in Casts |-> [cid \in Cids |-> [y \in Casts |->
                    IF cid = "a" /\ x # y
                    THEN (IF bl = NoBase THEN NoBase
                          ELSE IF x = "A" THEN bl
                          ELSE Baseline(bl.digest, bl.peer_rel, bl.rel))
                    ELSE NoBase]]] :
                  bl \in {NoBase} \cup
                         {Baseline(compute_digest("a", v), BasePath(r), BasePath(pr)) :
                            v \in Contents, r \in Stems, pr \in Stems}}
    /\ report = NoReport
    /\ args = NoCall
    /\ result = NoCall

DecideStep ==
    /\ report = NoReport
    /\ report' = [cast |-> "A",
                  before |-> [fs |-> fs, base |-> base],
                  plan |-> PlanOf([fs |-> fs, base |-> base], "A"),
                  cascade |-> [cid \in Cids |-> Act("NONE")],
                  exit |-> ExitCode(PlanOf([fs |-> fs, base |-> base], "A"))]
    /\ UNCHANGED <<fs, base, peers, args, result>>

DecideNext == DecideStep

SpecDecide == DecideInit /\ [][DecideNext]_vars

\* ------------------------------------------------------------- yamlio
\* A front matter is a Python dict: a sequence of entries [k, v] with
\* distinct keys, in insertion order.  A value is None, a number, a
\* string or a list of values.  A string is its text s, a trailing
\* "(live)" / "(watch)" marker (mode, "" when there is none) and pad = 1
\* when whitespace surrounds it; s = "" with pad = 1 is a blank string.
None == [t |-> "none"]
Num(n) == [t |-> "num", n |-> n]
Str(text, mode, pad) == [t |-> "str", s |-> text, mode |-> mode, pad |-> pad]
List(items) == [t |-> "list", items |-> items]
Plain(text) == Str(text, "", 0)

HasKey(fm, k) == \E i \in 1..Len(fm) : fm[i].k = k
Get(fm, k) == IF HasKey(fm, k) THEN fm[CHOOSE i \in 1..Len(fm) : fm[i].k = k].v ELSE None
Put(fm, k, v) ==
    IF HasKey(fm, k)
    THEN [i \in 1..Len(fm) |-> IF fm[i].k = k THEN [k |-> k, v |-> v] ELSE fm[i]]
    ELSE Append(fm, [k |-> k, v |-> v])
KeysOf(fm) == [i \in 1..Len(fm) |-> fm[i].k]
IsCastKey(k) == k \in {"cast-id", "cast-hsync", "cast-codebases", "cast-version",
                       "cast-apple", "cast-zebra", "cast-vaults"}

\* str.casefold and the order of the folded texts that occur.
casefold(text) == IF text = "A" THEN "a" ELSE IF text = "None" THEN "none" ELSE text
Rank(text) == CASE text = "5" -> 0 [] text = "a" -> 1 [] text = "b" -> 2
                [] text = "none" -> 3 [] OTHER -> 4
FoldLeq(t1, t2) == Rank(casefold(t1)) <= Rank(casefold(t2))

\* VAULT_ENTRY_REGEX: optional whitespace, a name without parentheses,
\* "(live)" or "(watch)", optional whitespace.
VAULT_ENTRY_REGEX(entry) ==
    entry.t = "str" /\ entry.mode \in {"live", "watch"} /\ (entry.s # "" \/ entry.pad = 1)

\* Faulty variant: the last entry of a name decides its mode, as in
\* parse_hsync_entries.
RECURSIVE modes_by_name_last_wins(_, _)
modes_by_name_last_wins(hs, acc) ==
    IF hs = <<>> THEN acc
    ELSE LET entry == Head(hs)
             seen == {i \in 1..Len(acc) : acc[i].name = entry.s}
             next ==
                 IF ~VAULT_ENTRY_REGEX(entry) \/ entry.s = "" THEN acc
                 ELSE IF seen = {} THEN Append(acc, [name |-> entry.s, mode |-> entry.mode])
                 ELSE [i \in 1..Len(acc) |->
                          IF i \in seen THEN [name |-> entry.s, mode |-> entry.mode] ELSE acc[i]]
         IN modes_by_name_last_wins(Tail(hs), next)

\* The loop over the entries of cast-hsync: modes_by_name as a sequence of
\* [name, mode] in insertion order.
RECURSIVE modes_by_name(_, _)
modes_by_name(hs, acc) ==
    IF hs = <<>> THEN acc
    ELSE LET entry == Head(hs)
             seen == {i \in 1..Len(acc) : acc[i].name = entry.s}
             next ==
                 IF ~VAULT_ENTRY_REGEX(entry) THEN acc
                 ELSE IF entry.s = "" THEN acc
                 ELSE IF seen = {} THEN Append(acc, [name |-> entry.s, mode |-> entry.mode])
                 ELSE IF acc[CHOOSE i \in seen : TRUE].mode = "live" THEN acc
                 ELSE IF entry.mode = "live"
                      THEN [i \in 1..Len(acc) |->
                               IF i \in seen THEN [name |-> entry.s, mode |-> "live"] ELSE acc[i]]
                      ELSE acc
         IN modes_by_name(Tail(hs), next)

\* sorted(names, key = str.casefold): a stable sort of the insertion order.
RECURSIVE InsertByFold(_, _)
InsertByFold(sorted, e) ==
    IF sorted = <<>> THEN <<e>>
    ELSE IF FoldLeq(Head(sorted).name, e.name)
         THEN <<Head(sorted)>> \o InsertByFold(Tail(sorted), e)
         ELSE <<e>> \o sorted

RECURSIVE SortByFold(_)
SortByFold(acc) ==
    IF acc = <<>> THEN <<>>
    ELSE InsertByFold(SortByFold(SubSeq(acc, 1, Len(acc) - 1)), acc[Len(acc)])

canonical_hsync(hs) ==
    LET entries == IF hs.t = "str" THEN <<hs>>
                   ELSE IF hs.t = "list" THEN hs.items
                   ELSE <<>>
        names == SortByFold(modes_by_name(entries, <<>>))
    IN List([i \in 1..Len(names) |-> Str(names[i].name, names[i].mode, 0)])

\* str(x).strip() of an entry of cast-codebases.
StrStrip(x) ==
    CASE x.t = "str" -> x.s
      [] x.t = "num" -> "5"
      [] x.t = "none" -> "None"
      [] OTHER -> "[]"

\* sorted(set(vals), key = str.casefold): a set has no order of its own, so
\* texts with equal casefold come out in either order.
SortedSet(vals) ==
    {seq \in [1..Cardinality(vals) -> vals] :
        /\ \A i, j \in 1..Cardinality(vals) : i # j => seq[i] # seq[j]
        /\ \A i, j \in 1..Cardinality(vals) : i < j => FoldLeq(seq[i], seq[j])}

canonical_codebases(cbs) ==
    IF cbs.t \notin {"str", "list"} THEN {List(<<>>)}
    ELSE LET items == IF cbs.t = "str" THEN <<cbs>> ELSE cbs.items
             vals == {StrStrip(items[i]) : i \in 1..Len(items)} \ {""}
         IN {List([i \in 1..Len(seq) |-> Plain(seq[i])]) : seq \in SortedSet(vals)}

\* _canonicalize_cast_lists: every front matter the call can return.
canonicalize_cast_lists(front_matter) ==
    LET fm1 == IF Get(front_matter, "cast-hsync") # None
               THEN Put(front_matter, "cast-hsync",
                        canonical_hsync(Get(front_matter, "cast-hsync")))
               ELSE front_matter
    IN IF Get(fm1, "cast-codebases") # None
       THEN {Put(fm1, "cast-codebases", c) :
                c \in canonical_codebases(Get(fm1, "cast-codebases"))}
       ELSE {fm1}

CAST_FIELDS_ORDER == <<"cast-id", "cast-hsync", "cast-codebases", "cast-version">>

\* reorder_cast_fields on a front matter whose lists are canonical already:
\* last-updated, the cast-* keys of CAST_FIELDS_ORDER, then the keys that
\* do not start with "cast-" in their order.
reorder_keys(fm) ==
    LET first == SelectSeq(fm, LAMBDA e : e.k = "last-updated")
        cast_fields == [i \in 1..Len(CAST_FIELDS_ORDER) |-> CAST_FIELDS_ORDER[i]]
        known == SelectSeq(cast_fields, LAMBDA k : HasKey(fm, k))
        other_fields == SelectSeq(fm, LAMBDA e : ~IsCastKey(e.k) /\ e.k # "last-updated")
    IN first \o [i \in 1..Len(known) |-> [k |-> known[i], v |-> Get(fm, known[i])]]
             \o other_fields

\* reorder_cast_fields: every front matter the call can return.
reorder_cast_fields(front_matter) ==
    {reorder_keys(fm) : fm \in canonicalize_cast_lists(front_matter)}

\* uuid.uuid4(): some fresh, non-empty id.
Uuids == {"u1", "u2"}

\* ensure_cast_fields(front_matter, generate_id): every (front matter,
\* modified) the call can return.
ensure_cast_fields(front_matter, generate_id) ==
    LET fm1 == IF ~HasKey(front_matter, "last-updated")
               THEN Put(front_matter, "last-updated", Plain(""))
               ELSE front_matter
        gen == generate_id /\ ~HasKey(fm1, "cast-id")
        ver == ~HasKey(fm1, "cast-version")
    IN {[fm |-> LET fm2 == IF gen THEN Put(fm1, "cast-id", Plain(u)) ELSE fm1
                IN IF ver THEN Put(fm2, "cast-version", Num(1)) ELSE fm2,
         modified |-> gen \/ ver] : u \in Uuids}

\* ------------------------------------------------------------- digest
\* spec.md 4.2: digest(fm, body) = hex(H(normalize_yaml(fm) || "\n---\n" ||
\* body)).  normalize_yaml drops last-updated, emits the keys in the
\* canonical order (cast-id, cast-hsync, cast-codebases, the other cast-*
\* keys alphabetically, then the other keys in their order), strips the
\* scalars and renders the lists canonicalized.  H is collision-free: the
\* digest is modelled by what is hashed.
CastKeysSorted == <<"cast-id", "cast-hsync", "cast-codebases",
                    "cast-apple", "cast-vaults", "cast-version", "cast-zebra">>

strip_scalar(v) == IF v.t = "str" THEN Str(v.s, v.mode, 0) ELSE v

\* Faulty variant: last-updated is not dropped.
normalize_keys_with_timestamp(fm) ==
    LET present == SelectSeq(CastKeysSorted, LAMBDA k : HasKey(fm, k))
        others == SelectSeq(fm, LAMBDA e : ~IsCastKey(e.k))
    IN [i \in 1..Len(present) |-> [k |-> present[i], v |-> strip_scalar(Get(fm, present[i]))]]
       \o [i \in 1..Len(others) |-> [k |-> others[i].k, v |-> strip_scalar(others[i].v)]]

normalize_keys(fm) ==
    LET present == SelectSeq(CastKeysSorted, LAMBDA k : HasKey(fm, k))
        others == SelectSeq(fm, LAMBDA e : ~IsCastKey(e.k) /\ e.k # "last-updated")
    IN [i \in 1..Len(present) |-> [k |-> present[i], v |-> strip_scalar(Get(fm, present[i]))]]
       \o [i \in 1..Len(others) |-> [k |-> others[i].k, v |-> strip_scalar(others[i].v)]]

normalize_yaml(fm) == {normalize_keys(c) : c \in canonicalize_cast_lists(fm)}

digest(fm, body) == {<<n, body>> : n \in normalize_yaml(fm)}

\* ------------------------------------------- the digest of two notes
\* Two (front matter, body) pairs are drawn and digested.
Entry(k, v) == [k |-> k, v |-> v]

DigestFms ==
    {lu \o id \o hs \o tail :
        lu \in {<<>>, <<Entry("last-updated", Plain("t1"))>>,
                <<Entry("last-updated", Plain("t2"))>>},
        id \in {<<Entry("cast-id", Plain("x"))>>, <<Entry("cast-id", Str("x", "", 1))>>,
                <<Entry("cast-id", Plain("y"))>>},
        hs \in {<<>>,
                <<Entry("cast-hsync", List(<<Str("A", "live", 0), Str("b", "watch", 0)>>))>>,
                <<Entry("cast-hsync", List(<<Str("b", "watch", 0), Str("A", "live", 0)>>))>>,
                <<Entry("cast-hsync", List(<<Str("A", "watch", 0)>>))>>},
        tail \in {<<Entry("title", Plain("v")), Entry("foo", Plain("v"))>>,
                  <<Entry("foo", Plain("v")), Entry("title", Plain("v"))>>,
                  <<Entry("title", Plain("v"))>>}}

Idle ==
    /\ fs = [x \in Casts |-> [cid \in Cids |-> NoFile]]
    /\ base = [x \in Casts |-> [cid \in Cids |-> [y \in Casts |-> NoBase]]]
    /\ peers = [cid \in Cids |-> [x \in Casts |-> "none"]]
    /\ report = NoReport

DigestInit ==
    /\ Idle
    /\ args \in {[one |-> [fm |-> f1, body |-> b1], two |-> [fm |-> f2, body |-> b2]] :
                   f1 \in DigestFms, f2 \in DigestFms, b1 \in 1..MaxBody, b2 \in 1..MaxBody}
    /\ result = NoCall

DigestStep ==
    /\ result = NoCall
    /\ \E d1 \in digest(args.one.fm, args.one.body), d2 \in digest(args.two.fm, args.two.body) :
          result' = [one |-> d1, two |-> d2]
    /\ UNCHANGED <<fs, base, peers, report, args>>

DigestNext == DigestStep

SpecDigest == DigestInit /\ [][DigestNext]_vars

\* ------------------------------------- canonicalization, called twice
\* A front matter is drawn; reorder_cast_fields or _canonicalize_cast_lists
\* is applied to it, and applied again to what it returned.
YamlKeys == {"last-updated", "cast-id", "cast-hsync", "cast-codebases", "cast-version",
             "cast-apple", "cast-zebra", "title", "foo"}

DefaultValue(k) ==
    CASE k = "cast-hsync" -> List(<<Str("b", "watch", 0), Str("A", "live", 0)>>)
      [] k = "cast-codebases" -> List(<<Plain("b"), Plain("a")>>)
      [] k = "cast-version" -> Num(1)
      [] OTHER -> Plain("v")

SeqsUpTo(S, n) == UNION {[1..m -> S] : m \in 0..n}

KeyOrders ==
    {ks \in SeqsUpTo(YamlKeys, MaxKeys) : \A i, j \in 1..Len(ks) : i # j => ks[i] # ks[j]}

HsyncEntries ==
    {Str(n, m, pad) : n \in {"a", "A", "b"}, m \in {"live", "watch"}, pad \in {0, 1}}
    \cup {Plain("a"), Str("", "live", 1), Num(5)}

CodebaseEntries ==
    {Plain("a"), Plain("A"), Plain("b"), Str("a", "", 1), Str("", "", 1), Num(5), None}

HsyncValues ==
    {List(es) : es \in SeqsUpTo(HsyncEntries, MaxEntries)}
    \cup {Str("A", "live", 1), Plain("a"), Num(5)}

CodebaseValues ==
    {List(es) : es \in SeqsUpTo(CodebaseEntries, MaxEntries)}
    \cup {Plain("b"), Str("a", "", 1), Num(5)}

YamlFms ==
    {[i \in 1..Len(ks) |-> Entry(ks[i], DefaultValue(ks[i]))] : ks \in KeyOrders}
    \cup {<<Entry("cast-id", Plain("x")), Entry("cast-hsync", h)>> : h \in HsyncValues}
    \cup {<<Entry("cast-id", Plain("x")), Entry("cast-codebases", c)>> : c \in CodebaseValues}

YamlInit ==
    /\ Idle
    /\ args \in YamlFms
    /\ result = NoCall

ReorderStep ==
    /\ result = NoCall
    /\ \E once \in reorder_cast_fields(args) :
         \E twice \in reorder_cast_fields(once) :
            result' = [fn |-> "reorder_cast_fields", once |-> once, twice |-> twice]
    /\ UNCHANGED <<fs, base, peers, report, args>>

CanonStep ==
    /\ result = NoCall
    /\ \E once \in canonicalize_cast_lists(args) :
         \E twice \in canonicalize_cast_lists(once) :
            result' = [fn |-> "_canonicalize_cast_lists", once |-> once, twice |-> twice]
    /\ UNCHANGED <<fs, base, peers, report, args>>

YamlNext == ReorderStep \/ CanonStep

SpecYaml == YamlInit /\ [][YamlNext]_vars

\* --------------------------- _canonicalize_cast_lists, on two orderings
\* A cast-hsync or cast-codebases list and a permutation of it are drawn;
\* _canonicalize_cast_lists is applied to a front matter holding each.
Reorderings(es) ==
    {[i \in 1..Len(es) |-> es[p[i]]] :
        p \in {q \in [1..Len(es) -> 1..Len(es)] :
                  \A i, j \in 1..Len(es) : i # j => q[i] # q[j]}}

PermInit ==
    /\ Idle
    /\ args \in UNION {{[key |-> "cast-hsync", one |-> es, two |-> es2] :
                            es2 \in Reorderings(es)} :
                                es \in SeqsUpTo(HsyncEntries, MaxEntries)}
                \cup UNION {{[key |-> "cast-codebases", one |-> es, two |-> es2] :
                            es2 \in Reorderings(es)} :
                                es \in SeqsUpTo(CodebaseEntries, MaxEntries)}
    /\ result = NoCall

PermStep ==
    /\ result = NoCall
    /\ \E one \in canonicalize_cast_lists(<<Entry(args.key, List(args.one))>>) :
         \E two \in canonicalize_cast_lists(<<Entry(args.key, List(args.two))>>) :
            result' = [one |-> Get(one, args.key), two |-> Get(two, args.key)]
    /\ UNCHANGED <<fs, base, peers, report, args>>

PermNext == PermStep

SpecPerm == PermInit /\ [][PermNext]_vars

\* ------------------------------------------ identity of an indexed file
\* A front matter is drawn; ensure_cast_fields is applied to it, or the
\* indexer handles a file holding it (build_ephemeral_index with fixup,
\* one turn of its loop).
IdValues == {Plain("x"), Str("x", "", 1), Plain(""), Str("", "", 1), None}

Optional(k, vs) == {<<>>} \cup {<<Entry(k, v)>> : v \in vs}

EnsureFms ==
    {lu \o id \o hs \o ver \o rest :
        lu \in Optional("last-updated", {Plain(""), Plain("v")}),
        id \in Optional("cast-id", IdValues),
        hs \in Optional("cast-hsync", {List(<<Str("b", "live", 0)>>)})
               \cup Optional("cast-vaults", {List(<<Str("b", "live", 0)>>)}),
        ver \in Optional("cast-version", {Num(1)}),
        rest \in Optional("title", {Plain("v")})}

EnsureInit ==
    /\ Idle
    /\ args \in EnsureFms
    /\ result = NoCall

EnsureStep ==
    /\ result = NoCall
    /\ \E out \in ensure_cast_fields(args, TRUE) :
          result' = [fn |-> "ensure_cast_fields", fm |-> out.fm, modified |-> out.modified]
    /\ UNCHANGED <<fs, base, peers, report, args>>

\* The legacy migration of the indexer: cast-vaults becomes cast-hsync.
migrate_cast_vaults(front_matter) ==
    IF HasKey(front_matter, "cast-vaults") /\ ~HasKey(front_matter, "cast-hsync")
    THEN Append(SelectSeq(front_matter, LAMBDA e : e.k # "cast-vaults"),
                Entry("cast-hsync", Get(front_matter, "cast-vaults")))
    ELSE front_matter

\* Faulty variant: any key at all makes a cast file.
has_cast_fields_any_key(front_matter) == front_matter # <<>>

has_cast_fields(front_matter) == \E i \in 1..Len(front_matter) : IsCastKey(front_matter[i].k)

IndexStep ==
    /\ result = NoCall
    /\ IF ~has_cast_fields(args)
       THEN result' = [fn |-> "build_ephemeral_index", rec |-> NoRec, written |-> FALSE]
       ELSE \E out \in ensure_cast_fields(migrate_cast_vaults(args), TRUE) :
            \E reordered \in reorder_cast_fields(out.fm) :
               LET front_matter == IF args # <<>> THEN out.fm ELSE args
                   modified == args # <<>> /\ (migrate_cast_vaults(args) # args \/ out.modified)
                   need_reorder ==
                       /\ args # <<>>
                       /\ \/ KeysOf(front_matter)[1] # "last-updated"
                          \/ KeysOf(reordered) # KeysOf(front_matter)
                          \/ Get(reordered, "cast-hsync") # Get(front_matter, "cast-hsync")
                          \/ Get(reordered, "cast-codebases") # Get(front_matter, "cast-codebases")
               IN result' =
                    [fn |-> "build_ephemeral_index",
                     rec |-> IF front_matter = <<>> \/ ~HasKey(front_matter, "cast-id")
                             THEN NoRec
                             ELSE [cast_id |-> Get(front_matter, "cast-id")],
                     written |-> modified \/ need_reorder]
    /\ UNCHANGED <<fs, base, peers, report, args>>

EnsureNext == EnsureStep \/ IndexStep

SpecEnsure == EnsureInit /\ [][EnsureNext]_vars

\* ------------------------------------------------- _safe_dest, called
\* A directory content, a destination and a suffix are drawn; _safe_dest
\* is applied.
DirNames ==
    {BasePath("P"), BasePath("Q")} \cup {AltPath(BasePath("P"), "A", i) : i \in 1..MaxAlt}

SafeDestInit ==
    /\ Idle
    /\ args \in {[base |-> b, suffix |-> sfx, existing |-> ex] :
                    b \in {BasePath("P"), BasePath("Q")}, sfx \in {"A", "B"},
                    ex \in SUBSET DirNames}
    /\ result = NoCall

SafeDestStep ==
    /\ result = NoCall
    /\ result' = [dest |-> safe_dest(args.base, args.suffix, args.existing)]
    /\ UNCHANGED <<fs, base, peers, report, args>>

SafeDestNext == SafeDestStep

SpecSafeDest == SafeDestInit /\ [][SafeDestNext]_vars

\* ------------------------------------------------- the indexer at work
\* A file of the cast folder: no file, a text without a front-matter
\* block, a block that is not YAML, a block that is YAML but no mapping,
\* or a front matter with a body.  yaml.dump followed by yaml.load gives
\* back the values modelled here (strings stay strings, numbers numbers,
\* null null, lists lists), so a written note is held as what it parses to.
Missing == [kind |-> "missing"]
Text == [kind |-> "text"]
Malformed == [kind |-> "malformed"]
Scalar == [kind |-> "scalar"]
Note(fm, body) == [kind |-> "map", fm |-> fm, body |-> body]

\* parse_cast_file: (front_matter, has_cast_fields); front_matter is None
\* unless the block is a mapping.
parse_cast_file(file) ==
    IF file.kind = "map"
    THEN [front_matter |-> file.fm, has_cast_fields |-> has_cast_fields(file.fm)]
    ELSE [front_matter |-> None, has_cast_fields |-> FALSE]

\* "not entries" of Python.
Falsy(v) ==
    \/ v = None
    \/ v.t = "list" /\ v.items = <<>>
    \/ v.t = "str" /\ v.s = "" /\ v.mode = "" /\ v.pad = 0
    \/ v.t = "num" /\ v.n = 0

\* The name group of VAULT_ENTRY_REGEX: a blank before the parenthesis is
\* a name of one space.
MatchedName(entry) == IF entry.s = "" THEN " " ELSE entry.s

\* parse_hsync_entries: {name: mode}, the last entry of a name deciding;
\* a string is walked character by character and matches nothing; a
\* number cannot be walked and raises.
RECURSIVE parse_entries_from(_, _)
parse_entries_from(entries, acc) ==
    IF entries = <<>> THEN acc
    ELSE LET entry == Head(entries)
         IN parse_entries_from(Tail(entries),
               IF VAULT_ENTRY_REGEX(entry)
               THEN [n \in DOMAIN acc \cup {MatchedName(entry)} |->
                        IF n = MatchedName(entry) THEN entry.mode ELSE acc[n]]
               ELSE acc)

Raises == [raises |-> TRUE]

parse_hsync_entries(entries) ==
    IF Falsy(entries) THEN <<>>
    ELSE IF entries.t = "list" THEN parse_entries_from(entries.items, <<>>)
    ELSE IF entries.t = "str" THEN <<>>
    ELSE Raises

\* EphemeralIndex.add_file
add_file(index, rec) ==
    [by_id |-> [k \in DOMAIN index.by_id \cup {rec.cast_id} |->
                   IF k = rec.cast_id THEN rec ELSE index.by_id[k]],
     by_path |-> [k \in DOMAIN index.by_path \cup {rec.relpath} |->
                   IF k = rec.relpath THEN rec.cast_id ELSE index.by_path[k]]]

\* EphemeralIndex.get_by_path
index_get_by_path(index, relpath) ==
    IF relpath \in DOMAIN index.by_path /\ ~Falsy(index.by_path[relpath])
       /\ index.by_path[relpath] \in DOMAIN index.by_id
    THEN index.by_id[index.by_path[relpath]]
    ELSE NoRec

\* One turn of the loop of build_ephemeral_index, for the file at relpath:
\* every state the turn can leave.  st holds the files, the index built so
\* far, the files written and whether the loop has been left.
index_file(st, relpath, fixup, limit_file) ==
    LET file == st.tree[relpath]
        parsed == parse_cast_file(file)
    IN IF st.stop \/ ~parsed.has_cast_fields THEN {st}
       ELSE LET migrated == IF fixup THEN migrate_cast_vaults(file.fm) ELSE file.fm
            IN UNION {
                 {LET front_matter == IF fixup THEN out.fm ELSE file.fm
                      modified == fixup /\ (migrated # file.fm \/ out.modified)
                      need_reorder ==
                          /\ fixup
                          /\ \/ KeysOf(front_matter)[1] # "last-updated"
                             \/ KeysOf(reordered) # KeysOf(front_matter)
                             \/ Get(reordered, "cast-hsync") # Get(front_matter, "cast-hsync")
                             \/ Get(reordered, "cast-codebases")
                                   # Get(front_matter, "cast-codebases")
                      write == modified \/ need_reorder
                      st1 == IF write
                             THEN [st EXCEPT !.tree[relpath] = Note(reordered, file.body),
                                             !.written = st.written \cup {relpath}]
                             ELSE st
                      hsync_entries == IF ~Falsy(Get(front_matter, "cast-hsync"))
                                       THEN Get(front_matter, "cast-hsync")
                                       ELSE IF HasKey(front_matter, "cast-vaults")
                                            THEN Get(front_matter, "cast-vaults")
                                            ELSE List(<<>>)
                      entries == parse_hsync_entries(hsync_entries)
                      codebases == IF Get(front_matter, "cast-codebases").t = "list"
                                   THEN Get(front_matter, "cast-codebases")
                                   ELSE List(<<>>)
                      rec == [cast_id |-> Get(front_matter, "cast-id"),
                              relpath |-> relpath,
                              digest |-> d,
                              peers |-> entries,
                              codebases |-> codebases]
                  IN IF ~HasKey(front_matter, "cast-id") \/ entries = Raises THEN st1
                     ELSE [st1 EXCEPT
                             !.index = add_file(st1.index, rec),
                             !.stop = /\ limit_file # NoLimit
                                      /\ "cast_id" \in DOMAIN limit_file
                                      /\ rec.cast_id = Plain(limit_file.cast_id)]
                  : reordered \in reorder_cast_fields(out.fm),
                    d \in digest(IF fixup THEN out.fm ELSE file.fm, file.body)}
                 : out \in ensure_cast_fields(migrated, TRUE)}

\* The files the loop visits: the one limit_file names as a path when it
\* exists, otherwise every file, in an order rglob may yield.
IndexPaths == {BasePath("P"), BasePath("Q")}

ScanOrders(tree, limit_file) ==
    LET present == {q \in IndexPaths : tree[q] # Missing}
        named == IF limit_file # NoLimit /\ "relpath" \in DOMAIN limit_file
                 THEN present \cap {limit_file.relpath} ELSE {}
        files == IF named # {} THEN named ELSE present
    IN {order \in SeqsUpTo(files, 2) :
          /\ Len(order) = Cardinality(files)
          /\ \A i, j \in 1..Len(order) : i # j => order[i] # order[j]}

RECURSIVE ScanFrom(_, _, _, _, _)
ScanFrom(states, order, i, fixup, limit_file) ==
    IF i > Len(order) THEN states
    ELSE ScanFrom(UNION {index_file(st, order[i], fixup, limit_file) : st \in states},
                  order, i + 1, fixup, limit_file)

\* build_ephemeral_index over a cast folder: every (files, index, files
\* written) it can end with.
IndexTree(tree, fixup, limit_file) ==
    UNION {ScanFrom({[tree |-> tree, index |-> [by_id |-> <<>>, by_path |-> <<>>],
                      written |-> {}, stop |-> FALSE, order |-> order]},
                    order, 1, fixup, limit_file)
           : order \in ScanOrders(tree, limit_file)}

\* The notes a cast folder is drawn from: complete and canonical ones,
\* one without a cast-* key, one without a cast-id, one naming a peer with
\* both modes, one with cast-hsync and cast-vaults, one with cast-vaults
\* alone, one with codebases out of order.
Complete(id, hs) ==
    <<Entry("last-updated", Plain("v")), Entry("cast-id", Plain(id)),
      Entry("cast-hsync", hs), Entry("cast-version", Num(1))>>

IndexFiles ==
    {Missing, Text, Malformed, Scalar,
     Note(Complete("x", List(<<Str("A", "live", 0), Str("b", "watch", 0)>>)), 1),
     Note(Complete("y", List(<<Str("A", "live", 0), Str("b", "watch", 0)>>)), 1),
     Note(<<Entry("title", Plain("v"))>>, 1),
     Note(<<Entry("cast-hsync", List(<<Str("b", "live", 0)>>))>>, 1),
     Note(Complete("x", List(<<Str("b", "live", 0), Str("b", "watch", 0)>>)), 1),
     Note(<<Entry("last-updated", Plain("v")), Entry("cast-id", Plain("y")),
            Entry("cast-hsync", List(<<Str("b", "live", 0)>>)),
            Entry("cast-vaults", List(<<Str("A", "live", 0)>>)),
            Entry("cast-version", Num(1))>>, 1),
     Note(<<Entry("last-updated", Plain("v")), Entry("cast-id", Plain("x")),
            Entry("cast-vaults", List(<<Str("b", "live", 0)>>)),
            Entry("cast-version", Num(1))>>, 1),
     Note(<<Entry("last-updated", Plain("v")), Entry("cast-id", Plain("y")),
            Entry("cast-codebases", List(<<Plain("b"), Plain("a")>>)),
            Entry("cast-version", Num(1))>>, 1)}

IndexLimits ==
    {NoLimit, PathLimit(BasePath("P")), PathLimit(BasePath("Q")), PathLimit(BasePath("R")),
     IdLimit("x"), IdLimit("y"), IdLimit("z")}

IndexerInit ==
    /\ Idle
    /\ args \in {[tree |-> tree, fixup |-> fixup, limit_file |-> limit_file] :
                    tree \in [IndexPaths -> IndexFiles], fixup \in BOOLEAN,
                    limit_file \in IndexLimits}
    /\ result = NoCall

\* build_ephemeral_index over the folder.
IndexRun ==
    /\ result = NoCall
    /\ \E out \in IndexTree(args.tree, args.fixup, args.limit_file) :
          result' = [first |-> out]
    /\ UNCHANGED <<fs, base, peers, report, args>>

\* build_ephemeral_index once more, over what the first run left.
IndexAgain ==
    /\ result # NoCall
    /\ DOMAIN result = {"first"}
    /\ \E out \in IndexTree(result.first.tree, args.fixup, args.limit_file) :
          result' = [first |-> result.first, second |-> out]
    /\ UNCHANGED <<fs, base, peers, report, args>>

IndexerNext == IndexRun \/ IndexAgain

SpecIndexer == IndexerInit /\ [][IndexerNext]_vars

\* ------------------------------------------------- write_cast_file, run
\* A directory with the note P.md (or without it), the note Q.md, and
\* possibly a temp file left by an earlier interrupted write.  A file
\* name is the sequence of its parts; a file content is the sequence of
\* the chunks written: the opening '---', one chunk per front-matter
\* entry, the closing '---', one chunk per line of the body.
Absent == [exists |-> FALSE, content |-> <<>>]
File(content) == [exists |-> TRUE, content |-> content]
FileName(stem) == <<stem, ".md">>
Mark == Entry("---", Plain(""))
Line(i) == Entry("", Num(i))

\* content = f"---\n{yaml_text}---\n{body}"
Dump(front_matter, body) ==
    <<Mark>> \o front_matter \o <<Mark>> \o [i \in 1..body |-> Line(i)]

\* Faulty variant: the content is written to the target itself.
temp_path_in_place(filepath) == filepath

\* filepath.parent / f".{filepath.name}.casttmp"
temp_path(filepath) == <<".">> \o filepath \o <<".casttmp">>

\* vault_path.rglob("*.md"): the names present that end in .md.
rglob_md(dir) == {name \in DOMAIN dir : dir[name].exists /\ name[Len(name)] = ".md"}

\* The front matter write_cast_file dumps: cast-vaults migrated, lists
\* canonical, keys reordered when reorder is set.
dumped_front_matter(front_matter, reorder) ==
    IF reorder THEN reorder_cast_fields(migrate_cast_vaults(front_matter))
    ELSE canonicalize_cast_lists(migrate_cast_vaults(front_matter))

WriteNames ==
    {FileName("P"), FileName("Q"), temp_path(FileName("P")), temp_path(FileName("Q"))}

WriteFms ==
    {<<Entry("title", Plain("v")), Entry("cast-id", Plain("x"))>>,
     <<Entry("cast-id", Plain("x")),
       Entry("cast-vaults", List(<<Str("b", "live", 0), Str("A", "live", 0)>>))>>,
     <<Entry("last-updated", Plain("v")), Entry("cast-id", Plain("x")),
       Entry("cast-codebases", List(<<Plain("b"), Plain("a")>>))>>}

OldFile == File(Dump(<<Entry("cast-id", Plain("x")), Entry("title", Plain("old"))>>, MaxBody))
OtherFile == File(Dump(<<Entry("cast-id", Plain("y"))>>, 1))
StaleFile == File(<<Mark, Entry("cast-id", Plain("x"))>>)

WriteInit ==
    /\ Idle
    /\ args \in {[filepath |-> FileName("P"), front_matter |-> fm, body |-> body,
                  reorder |-> reorder, old |-> old, stale |-> stale] :
                    fm \in WriteFms, body \in 1..MaxBody, reorder \in BOOLEAN,
                    old \in {Absent, OldFile}, stale \in {Absent, StaleFile}}
    /\ result = [pc |-> "start", content |-> <<>>, scanned |-> {},
                 dir |-> [name \in WriteNames |->
                            CASE name = FileName("P") -> args.old
                              [] name = FileName("Q") -> OtherFile
                              [] name = temp_path(FileName("P")) -> args.stale
                              [] OTHER -> Absent]]

\* Lines 206-217: the content is computed; no file is touched.
WriteDump ==
    /\ result.pc = "start"
    /\ \E fm \in dumped_front_matter(args.front_matter, args.reorder) :
          result' = [result EXCEPT !.pc = "dumped", !.content = Dump(fm, args.body)]
    /\ UNCHANGED <<fs, base, peers, report, args>>

\* temp_path.write_text: the file is created or truncated, ...
WriteOpen ==
    /\ result.pc = "dumped"
    /\ result' = [result EXCEPT !.pc = "writing",
                                !.dir[temp_path(args.filepath)] = File(<<>>)]
    /\ UNCHANGED <<fs, base, peers, report, args>>

\* ... the content reaches it chunk by chunk, ...
WriteChunk ==
    /\ result.pc = "writing"
    /\ LET temp == temp_path(args.filepath)
           n == Len(result.dir[temp].content)
       IN /\ n < Len(result.content)
          /\ result' = [result EXCEPT !.dir[temp].content = Append(@, result.content[n + 1])]
    /\ UNCHANGED <<fs, base, peers, report, args>>

\* ... and the file is closed once all of it is written.
WriteClose ==
    /\ result.pc = "writing"
    /\ Len(result.dir[temp_path(args.filepath)].content) = Len(result.content)
    /\ result' = [result EXCEPT !.pc = "written"]
    /\ UNCHANGED <<fs, base, peers, report, args>>

\* temp_path.replace(filepath): one rename.
WriteReplace ==
    /\ result.pc = "written"
    /\ LET temp == temp_path(args.filepath)
       IN result' = [result EXCEPT !.pc = "done",
                        !.dir = [name \in WriteNames |->
                                    IF name = args.filepath THEN result.dir[temp]
                                    ELSE IF name = temp THEN Absent
                                    ELSE result.dir[name]]]
    /\ UNCHANGED <<fs, base, peers, report, args>>

\* An exception or the end of the process, at any step before the end.
WriteInterrupt ==
    /\ result.pc \in {"start", "dumped", "writing", "written"}
    /\ result' = [result EXCEPT !.pc = "failed"]
    /\ UNCHANGED <<fs, base, peers, report, args>>

\* The indexer lists the folder, at any moment of the write or after it.
WriteScan ==
    /\ result.scanned # rglob_md(result.dir)
    /\ result' = [result EXCEPT !.scanned = rglob_md(result.dir)]
    /\ UNCHANGED <<fs, base, peers, report, args>>

WriteNext ==
    \/ WriteDump
    \/ WriteOpen
    \/ WriteChunk
    \/ WriteClose
    \/ WriteReplace
    \/ WriteInterrupt
    \/ WriteScan

SpecWrite == WriteInit /\ [][WriteNext]_vars

\* ------------------------------------------------ vocabulary of the claims
\* Pre is the state the reported run started from, Now the state it left.
Pre == report.before
Now == [fs |-> fs, base |-> base]
Has(s, x) == s.fs[x]["a"] # NoFile
Dig(s, x) == compute_digest("a", s.fs[x]["a"].v)
Path(s, x) == s.fs[x]["a"].relpath
Bl(s, x) == s.base[x]["a"][Other(x)]
ModeOf(x) == peers["a"][Other(x)]
Ran(x) == report # NoReport /\ report.cast = x
Planned(x, op) == Ran(x) /\ report.plan["a"].op = op
Cascaded == report.cascade["a"].op # "NONE"
Taken(s, x, relpath) == \E cid \in Cids : s.fs[x][cid] # NoFile /\ s.fs[x][cid].relpath = relpath

\* ------------------------------------------------------------------ C1
\* C1 (watch safety): a run from x against a peer whose mode for the note
\* is watch plans nothing but NO_OP, PULL, RENAME_LOCAL or CLEAR_BASELINE
\* for the pair, and leaves every note of the peer as it was.
C1_WatchSafety ==
    \A x \in Casts :
        (Ran(x) /\ ModeOf(x) = "watch")
        => /\ report.plan["a"].op \in
                 {"NONE", "NO_OP", "PULL", "RENAME_LOCAL", "CLEAR_BASELINE"}
           /\ fs[Other(x)] = Pre.fs[Other(x)]

\* ------------------------------------------------------------------ C2
\* The peer holds another note at the local note's relpath, holds no copy
\* of the local note, and the pair has no baseline.
FirstContactCollision(s, x) ==
    /\ Has(s, x)
    /\ ~Has(s, Other(x))
    /\ Bl(s, x) = NoBase
    /\ Taken(s, Other(x), Path(s, x))

\* The copy of an earlier safe push sits at an alternate of the local path.
SafePushed(s, x) ==
    /\ Has(s, x) /\ Has(s, Other(x))
    /\ Bl(s, x) # NoBase
    /\ Dig(s, x) = Dig(s, Other(x))
    /\ Path(s, x).n = 0
    /\ Path(s, Other(x)).stem = Path(s, x).stem /\ Path(s, Other(x)).n >= 1
    /\ \E cid \in Cids \ {"a"} : /\ s.fs[Other(x)][cid] # NoFile
                                 /\ s.fs[Other(x)][cid].relpath = Path(s, x)

DeletedOneSide(s, x) ==
    /\ Bl(s, x) # NoBase
    /\ \/ ~Has(s, x) /\ Has(s, Other(x)) /\ Dig(s, Other(x)) = Bl(s, x).digest
       \/ Has(s, x) /\ ~Has(s, Other(x)) /\ Dig(s, x) = Bl(s, x).digest

C4_WatchDeletionStays ==
    \A x \in Casts :
        (Ran(x) /\ ModeOf(x) = "watch" /\ Bl(Pre, x) # NoBase
           /\ Has(Pre, x) # Has(Pre, Other(x)))
        => /\ fs = Pre.fs
           /\ Bl(Now, x) = NoBase

\* ------------------------------------------------------------------ C5
\* Both sides agreed at one path (rel = peer_rel), then only the side
\* "mover" moved its copy; neither content changed.
RenamedOn(s, x, mover) ==
    /\ Bl(s, x) # NoBase
    /\ Bl(s, x).rel = Bl(s, x).peer_rel
    /\ Has(s, x) /\ Has(s, Other(x))
    /\ Dig(s, x) = Bl(s, x).digest /\ Dig(s, Other(x)) = Bl(s, x).digest
    /\ IF mover = x
       THEN Path(s, x) # Bl(s, x).rel /\ Path(s, Other(x)) = Bl(s, x).peer_rel
       ELSE Path(s, x) = Bl(s, x).rel /\ Path(s, Other(x)) # Bl(s, x).peer_rel

C6_PeerRenamePropagatesBack ==
    \A x \in Casts :
        (Ran(x) /\ ModeOf(x) = "live" /\ RenamedOn(Pre, x, Other(x))
           /\ ~Taken(Pre, x, Path(Pre, Other(x))))
        => /\ Has(Now, x) /\ Path(Now, x) = Path(Pre, Other(x))
           /\ fs[Other(x)] = Pre.fs[Other(x)]
           /\ Bl(Now, x) # NoBase
           /\ Bl(Now, x).rel = Path(Pre, Other(x))
           /\ Bl(Now, x).peer_rel = Path(Pre, Other(x))

\* ------------------------------------------------------------------ C7
\* Equal digests at different paths, and the baseline's path pair matches
\* neither side's current path.
DivergentRenames(s, x) ==
    /\ Has(s, x) /\ Has(s, Other(x))
    /\ Dig(s, x) = Dig(s, Other(x))
    /\ Path(s, x) # Path(s, Other(x))
    /\ Bl(s, x) # NoBase
    /\ Bl(s, x).rel # Path(s, x)
    /\ Bl(s, x).peer_rel # Path(s, Other(x))

\* C7 (divergent renames conflict): when both sides renamed since the
\* baseline the pair is decided CONFLICT(rename), never a rename, and the
\* non-interactive run moves neither file and ends with status 3.
C7_DivergentRenamesConflict ==
    \A x \in Casts :
        (Ran(x) /\ DivergentRenames(Pre, x))
        => /\ report.plan["a"] = Conflict("rename")
           /\ fs = Pre.fs
           /\ report.exit = 3

C7_Witness ==
    /\ Planned("A", "CONFLICT") /\ report.plan["a"].kind = "rename"
    /\ DivergentRenames(Pre, "A")
    /\ Path(Now, "A") = Path(Pre, "A") /\ Path(Now, "B") = Path(Pre, "B")

\* ------------------------------------------------------------------ C8
\* (checked under SpecDecide, where both sides hold the note)
SameDigestRenames ==
    IF ModeOf("A") = "live"
    THEN report.plan["a"] = Rename("RENAME_PEER", Path(Pre, "B"), Path(Pre, "A"))
    ELSE report.plan["a"] = Rename("RENAME_LOCAL", Path(Pre, "A"), Path(Pre, "B"))

DiffDigestWithBaseline ==
    /\ report.plan["a"].op = "PULL" <=> Dig(Pre, "A") = Bl(Pre, "A").digest
    /\ report.plan["a"].op = "PUSH"
         <=> (Dig(Pre, "B") = Bl(Pre, "A").digest /\ ModeOf("A") = "live")
    /\ (Dig(Pre, "B") = Bl(Pre, "A").digest /\ ModeOf("A") = "watch")
         => report.plan["a"].op = "NO_OP"
    /\ (Dig(Pre, "A") # Bl(Pre, "A").digest /\ Dig(Pre, "B") # Bl(Pre, "A").digest)
         <=> report.plan["a"] = Conflict("content")

Agreed(x) ==
    \/ report.plan["a"].op \in {"PUSH", "PULL", "RENAME_PEER", "RENAME_LOCAL", "SAFE_PUSH_COPY"}
    \/ /\ report.plan["a"].op = "NO_OP"
       /\ Has(Pre, x) /\ Has(Pre, Other(x))
       /\ Dig(Pre, x) = Dig(Pre, Other(x))

BaselinesAgree(x) ==
    /\ Has(Now, x) /\ Has(Now, Other(x))
    /\ Bl(Now, x) # NoBase /\ Bl(Now, Other(x)) # NoBase
    /\ Bl(Now, x).digest = Dig(Now, x)
    /\ Bl(Now, x).digest = Dig(Now, Other(x))
    /\ Bl(Now, x).rel = Path(Now, x)
    /\ Bl(Now, x).peer_rel = Path(Now, Other(x))
    /\ Bl(Now, Other(x)) = Baseline(Bl(Now, x).digest, Bl(Now, x).peer_rel, Bl(Now, x).rel)

FirstContact(s, x) ==
    /\ Has(s, x) /\ ~Has(s, Other(x))
    /\ ModeOf(x) = "live"
    /\ Bl(s, x) = NoBase

\* Since the baseline only the peer's copy was edited; nothing moved.
OnlyPeerEdited(s, x) ==
    /\ Bl(s, x) # NoBase
    /\ Has(s, x) /\ Has(s, Other(x))
    /\ Dig(s, x) = Bl(s, x).digest
    /\ Dig(s, Other(x)) # Bl(s, x).digest
    /\ Path(s, x) = Bl(s, x).rel
    /\ Path(s, Other(x)) = Bl(s, x).peer_rel

FastForwardPull(x) ==
    (Ran(x) /\ OnlyPeerEdited(Pre, x))
    => /\ Has(Now, x) /\ Has(Now, Other(x))
       /\ fs[x]["a"].v = Pre.fs[Other(x)]["a"].v
       /\ fs[Other(x)]["a"].v = Pre.fs[Other(x)]["a"].v
       /\ Bl(Now, x) # NoBase
       /\ Bl(Now, x).digest = Dig(Pre, Other(x))

\* C10 as stated: a first run on a note that lists a live peer which has
\* no copy creates an identical copy on the peer at the same relpath and
\* records a baseline; a later run after an edit of the peer's copy alone
\* makes the local copy identical and moves the baseline digest.
C10_Original ==
    \A x \in Casts :
        /\ (Ran(x) /\ FirstContact(Pre, x))
             => /\ fs[Other(x)]["a"] = Pre.fs[x]["a"]
                /\ Bl(Now, x) # NoBase
        /\ FastForwardPull(x)

\* C10 (first contact, then fast-forward), amended: the copy is created
\* at the same relpath unless a note with another cast-id already sits
\* there on the peer; then it is created at the first free alternate path
\* and that note is left alone.  A baseline is recorded either way, and
\* the fast-forward pull is as stated.
C10_FirstContactThenPull ==
    \A x \in Casts :
        /\ (Ran(x) /\ FirstContact(Pre, x))
             => /\ Has(Now, Other(x))
                /\ fs[Other(x)]["a"].v = Pre.fs[x]["a"].v
                /\ Path(Now, Other(x))
                     = IF Taken(Pre, Other(x), Path(Pre, x))
                       THEN AltPath(Path(Pre, x), x, 1)
                       ELSE Path(Pre, x)
                /\ fs[Other(x)]["b"] = Pre.fs[Other(x)]["b"]
                /\ Bl(Now, x) # NoBase
        /\ FastForwardPull(x)

C10_Witness ==
    /\ Planned("A", "PUSH")
    /\ FirstContact(Pre, "A")
    /\ fs["B"]["a"] = Pre.fs["A"]["a"]
    /\ Bl(Now, "A") # NoBase

\* ----------------------------------------------------------------- C11
ConflictIn(plan) == \E cid \in Cids : plan[cid].op = "CONFLICT"

DropKey(fm, k) == SelectSeq(fm, LAMBDA e : e.k # k)

OnlyLastUpdatedDiffers ==
    /\ args.one.body = args.two.body
    /\ DropKey(args.one.fm, "last-updated") = DropKey(args.two.fm, "last-updated")

\* The two front matters, last-updated aside, hold the same keys, with
\* values equal up to whitespace around a scalar and up to the canonical
\* form of cast-hsync, and their non-cast keys come in the same order.
SameWhereItCounts(f1, f2) ==
    LET k1 == {f1[i].k : i \in 1..Len(f1)} \ {"last-updated"}
        k2 == {f2[i].k : i \in 1..Len(f2)} \ {"last-updated"}
        plain(f) == KeysOf(SelectSeq(f, LAMBDA e : ~IsCastKey(e.k) /\ e.k # "last-updated"))
    IN /\ k1 = k2
       /\ \A k \in k1 :
             IF k = "cast-hsync"
             THEN canonical_hsync(Get(f1, k)) = canonical_hsync(Get(f2, k))
             ELSE /\ Get(f1, k).t = Get(f2, k).t
                  /\ Get(f1, k).t = "str" => /\ Get(f1, k).s = Get(f2, k).s
                                             /\ Get(f1, k).mode = Get(f2, k).mode
       /\ plain(f1) = plain(f2)

C14_Idempotent ==
    result # NoCall => result.twice = result.once

\* ----------------------------------------------------------------- C15
\* The key order of spec.md 3 for the keys of fm.
CanonicalKeyOrder(fm) ==
    LET first == SelectSeq(KeysOf(fm), LAMBDA k : k = "last-updated")
        cast == SelectSeq(CastKeysSorted, LAMBDA k : HasKey(fm, k))
        rest == SelectSeq(KeysOf(fm), LAMBDA k : ~IsCastKey(k) /\ k # "last-updated")
    IN first \o cast \o rest

\* C15 (canonical key order without loss): reorder_cast_fields(fm) holds
\* every key of fm once, none dropped, in the order last-updated, cast-id,
\* cast-hsync, cast-codebases, the other cast-* keys alphabetically, then
\* the non-cast keys in their original order.
C15_KeyOrderWithoutLoss ==
    (result # NoCall /\ result.fn = "reorder_cast_fields")
    => KeysOf(result.once) = CanonicalKeyOrder(args)

\* ----------------------------------------------------------------- C16
EntriesOf(v) == IF v.t = "list" THEN v.items ELSE IF v.t = "str" THEN <<v>> ELSE <<>>

WellFormed(v) ==
    {e \in {EntriesOf(v)[i] : i \in 1..Len(EntriesOf(v))} :
        e.t = "str" /\ e.mode \in {"live", "watch"} /\ e.s # ""}

SortedByFold(items) ==
    \A i, j \in 1..Len(items) : i < j => FoldLeq(items[i].s, items[j].s)

NoRepeat(items) ==
    \A i, j \in 1..Len(items) : i # j => items[i].s # items[j].s

HsyncCanonical(in, out) ==
    /\ out.t = "list"
    /\ {out.items[i].s : i \in 1..Len(out.items)} = {e.s : e \in WellFormed(in)}
    /\ NoRepeat(out.items)
    /\ \A i \in 1..Len(out.items) :
          /\ out.items[i].pad = 0
          /\ out.items[i].mode =
               IF \E e \in WellFormed(in) : e.s = out.items[i].s /\ e.mode = "live"
               THEN "live" ELSE "watch"
    /\ SortedByFold(out.items)

CodebasesCanonical(in, out) ==
    /\ out.t = "list"
    /\ {out.items[i].s : i \in 1..Len(out.items)}
         = {StrStrip(EntriesOf(in)[i]) : i \in 1..Len(EntriesOf(in))} \ {""}
    /\ NoRepeat(out.items)
    /\ SortedByFold(out.items)

\* C16 (cast-hsync canonicalization): the canonical cast-hsync holds one
\* entry per name of a well-formed entry, live if any well-formed entry of
\* that name says live, wherever it stands, watch otherwise, sorted by
\* name without regard to case; the canonical cast-codebases holds every
\* non-blank entry once, sorted without regard to case.
C16_ListsCanonical ==
    (result # NoCall /\ result.fn = "_canonicalize_cast_lists")
    => /\ Get(args, "cast-hsync") # None
            => HsyncCanonical(Get(args, "cast-hsync"), Get(result.once, "cast-hsync"))
       /\ Get(args, "cast-codebases") # None
            => CodebasesCanonical(Get(args, "cast-codebases"),
                                  Get(result.once, "cast-codebases"))

C16_Witness ==
    /\ result # NoCall /\ result.fn = "_canonicalize_cast_lists"
    /\ Get(args, "cast-hsync") = List(<<Str("b", "watch", 0), Str("b", "live", 1)>>)
    /\ Get(result.once, "cast-hsync") = List(<<Str("b", "live", 0)>>)

\* ----------------------------------------------------------------- C17
Usable(v) == v.t = "str" /\ v.s # ""

\* C17 (ensure_cast_fields guarantees a usable identity): the cast-id of
\* the returned front matter is a non-blank string; when the given one is
\* absent, empty, blank or null a new id is generated and modified is
\* true; a non-blank id is left as it is; and every FileRec the indexer
\* produces with fixup holds a non-blank cast_id.
C17_UsableIdentity ==
    /\ (result # NoCall /\ result.fn = "ensure_cast_fields")
       => /\ Usable(Get(result.fm, "cast-id"))
          /\ ~Usable(Get(args, "cast-id"))
                => result.modified /\ Get(result.fm, "cast-id") \in {Plain(u) : u \in Uuids}
          /\ Usable(Get(args, "cast-id"))
                => Get(result.fm, "cast-id") = Get(args, "cast-id")
    /\ (result # NoCall /\ result.fn = "build_ephemeral_index" /\ result.rec # NoRec)
       => Usable(result.rec.cast_id)

\* ----------------------------------------------------------------- C18
\* The note a filter names: the one at that path, or carrying that id.
Named(s, x, limit_file) ==
    IF "relpath" \in DOMAIN limit_file
    THEN {cid \in Cids : s.fs[x][cid] # NoFile /\ s.fs[x][cid].relpath = limit_file.relpath}
    ELSE {cid \in Cids : s.fs[x][cid] # NoFile /\ cid = limit_file.cast_id}

Filtered(x) == Ran(x) /\ "file" \in DOMAIN report /\ Named(Pre, x, report.file) # {}

\* C18 (file-filtered sync has no effect outside the filter): a run
\* restricted with --file to one note leaves every other note as it was,
\* on the local side and on the peer, plans no deletion for it and clears
\* no baseline of it.
C18_NoEffectOutsideFilter ==
    \A x \in Casts :
        Filtered(x)
        => \A cid \in Cids \ Named(Pre, x, report.file) :
              /\ \A y \in Casts : fs[y][cid] = Pre.fs[y][cid]
              /\ report.plan[cid].op \notin {"DELETE_PEER", "DELETE_LOCAL", "CLEAR_BASELINE"}
              /\ \A y \in Casts : Pre.base[y][cid][Other(y)] # NoBase
                                     => base[y][cid][Other(y)] # NoBase

\* ----------------------------------------------------------------- C19
Running == IF report = NoReport THEN FALSE ELSE report.queue # <<>>
Done == IF report = NoReport THEN FALSE ELSE report.queue = <<>>

\* Within one run sync is invoked from each cast at most once, and only
\* from casts the run has visited.
OncePerCast ==
    report # NoReport
    => /\ \A y \in Vaults : report.runs[y] <= 1
       /\ \A i \in 1..Len(report.queue) :
             /\ report.queue[i] \in report.visited
             /\ report.runs[report.queue[i]] = 0
             /\ \A j \in 1..Len(report.queue) : i # j => report.queue[i] # report.queue[j]

\* y is a live peer the run reached and cid is a note of the originating
\* cast that lists it.
Covers(y, cid) ==
    /\ y \in report.reached
    /\ peers[cid][y] = "live"
    /\ fs[report.cast][cid] # NoFile

SameCopy(y, cid) == fs[y][cid] # NoFile /\ fs[y][cid].v = fs[report.cast][cid].v

\* The original statement: whatever the casts held before the run, every
\* live peer reached ends holding the originating cast's copy.
C19_Original ==
    /\ OncePerCast
    /\ Done => \A y \in Vaults, cid \in Cids : Covers(y, cid) => SameCopy(y, cid)

\* The note is new to the peers: before the run the originating cast holds
\* it, no other cast holds a copy of it and no baseline of it exists.
NewToPeers(cid) ==
    /\ Pre.fs[report.cast][cid] # NoFile
    /\ \A y \in Vaults \ {report.cast} : Pre.fs[y][cid] = NoFile
    /\ \A x, y \in Vaults : Pre.base[x][cid][y] = NoBase

\* C19 (cascade terminates and covers the reached peers): a cascading
\* run, on a graph of casts with cycles too, comes to an end; sync is
\* invoked from each cast at most once within the run; and every live
\* peer the run reached ends holding a copy, identical to the originating
\* cast's, of each note that lists it and was new to the peers.
C19_CascadeTerminates ==
    /\ [](OncePerCast)
    /\ [](Done => \A y \in Vaults, cid \in Cids :
                     (Covers(y, cid) /\ NewToPeers(cid)) => SameCopy(y, cid))
    /\ (Running ~> Done)

C19_Witness ==
    /\ Done
    /\ report.cast = "A"
    /\ report.visited = Vaults
    /\ \A y \in Vaults : report.runs[y] = 1
    /\ NewToPeers("a")
    /\ Covers("B", "a") /\ SameCopy("B", "a")
    /\ Covers("C", "a") /\ SameCopy("C", "a")

\* ----------------------------------------------------------------- C20
\* The pair agreed at one path, the peer's copy is gone, and the local
\* note, its content unchanged, stands at another path.
MovedWithPeerMissing(s, x) ==
    /\ Bl(s, x) # NoBase
    /\ Bl(s, x).rel = Bl(s, x).peer_rel
    /\ Has(s, x) /\ ~Has(s, Other(x))
    /\ Dig(s, x) = Bl(s, x).digest
    /\ Path(s, x) # Bl(s, x).rel

\* C20 (local rename with the peer's copy missing recreates): after a
\* baseline at P on both sides, with the live peer's copy removed and the
\* local note moved unchanged from P to Q, a run from the local cast
\* creates the note on the peer at Q with the local content, leaves no
\* copy of it at P on the peer, and keeps the local note.
C20_RenameRecreatesOnPeer ==
    \A x \in Casts :
        (Ran(x) /\ ModeOf(x) = "live" /\ MovedWithPeerMissing(Pre, x)
           /\ ~Taken(Pre, Other(x), Path(Pre, x)))
        => /\ fs[Other(x)]["a"] = [relpath |-> Path(Pre, x), v |-> Pre.fs[x]["a"].v]
           /\ fs[x]["a"] = Pre.fs[x]["a"]

\* ----------------------------------------------------------------- C21
\* (checked under SpecSafeDest)
\* C21 (collision-safe destination): _safe_dest returns the destination
\* itself when nothing exists there; otherwise the first name that does
\* not exist among 'stem suffix', 'stem suffix 2', 'stem suffix 3', ...;
\* what it returns never names an existing file, and the search ends
\* after at most as many names as the directory holds.
C21_SafeDest ==
    result # NoCall
    => /\ result.dest \notin args.existing
       /\ args.base \notin args.existing => result.dest = args.base
       /\ args.base \in args.existing
            => \E k \in 1..Cardinality(args.existing) :
                  /\ result.dest = AltPath(args.base, args.suffix, k)
                  /\ \A i \in 1..(k - 1) : AltPath(args.base, args.suffix, i) \in args.existing

C21_Witness ==
    /\ result # NoCall
    /\ args.base = BasePath("P") /\ args.suffix = "A"
    /\ args.existing = {BasePath("P"), AltPath(BasePath("P"), "A", 1)}
    /\ result.dest = AltPath(BasePath("P"), "A", 2)

\* ----------------------------------------------------------------- C22
\* (C22 to C25, C28 and C29 are checked under SpecIndexer)
Indexed(run) == result # NoCall /\ run \in DOMAIN result

\* A file that is no cast file: no front-matter block, a block that is
\* malformed or no mapping, or a mapping without a cast-* key.
NotCastFile(file) ==
    \/ file.kind \in {"text", "malformed", "scalar"}
    \/ file.kind = "map" /\ \A i \in 1..Len(file.fm) : ~IsCastKey(file.fm[i].k)

RecsOf(index) == {index.by_id[k] : k \in DOMAIN index.by_id}

\* C22 (the indexer writes only repairs of cast files): a file that is no
\* cast file is neither written nor put in the index; without fixup no
\* file is written; the baselines of .cast/syncstate.json stay as they are.
C22_WritesOnlyRepairs ==
    Indexed("first")
    => /\ \A q \in IndexPaths :
             NotCastFile(args.tree[q])
             => /\ q \notin result.first.written
                /\ result.first.tree[q] = args.tree[q]
                /\ q \notin DOMAIN result.first.index.by_path
                /\ \A rec \in RecsOf(result.first.index) : rec.relpath # q
       /\ ~args.fixup => result.first.written = {} /\ result.first.tree = args.tree
       /\ \A q \in result.first.written : ~NotCastFile(args.tree[q])
       /\ base = [x \in Casts |-> [cid \in Cids |-> [y \in Casts |-> NoBase]]]

C22_Witness ==
    /\ Indexed("first")
    /\ args.fixup
    /\ args.tree[BasePath("P")] = Note(<<Entry("title", Plain("v"))>>, 1)
    /\ args.tree[BasePath("Q")].kind = "map"
    /\ result.first.written = {BasePath("Q")}
    /\ DOMAIN result.first.index.by_path = {BasePath("Q")}

\* ----------------------------------------------------------------- C23
\* The files limit_file designates: the file at that path, or the notes
\* carrying that cast-id.
Designated(tree, limit_file) ==
    IF "relpath" \in DOMAIN limit_file
    THEN {q \in IndexPaths : q = limit_file.relpath /\ tree[q] # Missing}
    ELSE {q \in IndexPaths : /\ tree[q].kind = "map"
                              /\ Get(tree[q].fm, "cast-id") = Plain(limit_file.cast_id)}

\* C23 (limit_file restricts the index to one file): with limit_file the
\* index holds at most one FileRec, the designated file's; no other file
\* is indexed or written; and the index is empty when limit_file
\* designates no existing file.
C23_LimitFile ==
    (Indexed("first") /\ args.limit_file # NoLimit)
    => /\ Cardinality(RecsOf(result.first.index)) <= 1
       /\ \A rec \in RecsOf(result.first.index) :
             rec.relpath \in Designated(args.tree, args.limit_file)
       /\ result.first.written \subseteq Designated(args.tree, args.limit_file)
       /\ Designated(args.tree, args.limit_file) = {}
             => DOMAIN result.first.index.by_id = {}

\* ----------------------------------------------------------------- C24
\* C24 (duplicate cast_id within one cast): when two files carry the same
\* cast_id, by_id holds the record of the file indexed later, and every
\* path of by_path leads to a record with that relpath.
C24_DuplicateCastId ==
    (Indexed("first") /\ args.limit_file = NoLimit)
    => /\ \A rec \in RecsOf(result.first.index) :
             \A i \in 1..Len(result.first.order) :
                (/\ result.first.tree[result.first.order[i]].kind = "map"
                 /\ HasKey(result.first.tree[result.first.order[i]].fm, "cast-id")
                 /\ Get(result.first.tree[result.first.order[i]].fm, "cast-id") = rec.cast_id)
                => \E j \in i..Len(result.first.order) : rec.relpath = result.first.order[j]
       /\ \A q \in DOMAIN result.first.index.by_path :
             /\ index_get_by_path(result.first.index, q) # NoRec
             /\ index_get_by_path(result.first.index, q).relpath = q

\* ----------------------------------------------------------------- C25
\* The note names its peers twice, under cast-hsync and under cast-vaults,
\* and the two lists differ.
Ambiguous(file) ==
    /\ file.kind = "map"
    /\ HasKey(file.fm, "cast-hsync") /\ HasKey(file.fm, "cast-vaults")
    /\ Get(file.fm, "cast-hsync") # Get(file.fm, "cast-vaults")

OnlyVaults(file) ==
    /\ file.kind = "map"
    /\ ~HasKey(file.fm, "cast-hsync") /\ HasKey(file.fm, "cast-vaults")

\* C25 (ambiguous legacy alias is rejected): a note holding cast-hsync and
\* cast-vaults with different contents is kept out of the index and is
\* never rewritten; a note holding cast-vaults alone comes out of a run
\* with fixup with the same entries under cast-hsync.
C25_AmbiguousAliasRejected ==
    Indexed("first")
    => \A q \in IndexPaths :
          /\ Ambiguous(args.tree[q])
                => /\ q \notin result.first.written
                   /\ result.first.tree[q] = args.tree[q]
                   /\ \A rec \in RecsOf(result.first.index) : rec.relpath # q
          /\ (OnlyVaults(args.tree[q]) /\ q \in result.first.written)
                => /\ ~HasKey(result.first.tree[q].fm, "cast-vaults")
                   /\ Get(result.first.tree[q].fm, "cast-hsync")
                        = canonical_hsync(Get(args.tree[q].fm, "cast-vaults"))

\* ----------------------------------------------------------------- C28
\* C28 (indexer repair is idempotent): a second run with fixup over what
\* the first run left writes no file and gives the by_id map the first
\* run gave.
C28_RepairIdempotent ==
    (Indexed("second") /\ args.fixup)
    => /\ result.second.written = {}
       /\ result.second.index.by_id = result.first.index.by_id

\* ----------------------------------------------------------------- C29
\* The name-to-mode mapping of a canonical cast-hsync list.
ModesOf(hs) ==
    IF hs = None THEN <<>>
    ELSE [n \in {hs.items[i].s : i \in 1..Len(hs.items)} |->
            (CHOOSE e \in {hs.items[i] : i \in 1..Len(hs.items)} : e.s = n).mode]

\* C29 (the index and the file agree on peer modes): FileRec.peers of an
\* indexed file is the name-to-mode mapping of the canonical cast-hsync
\* list of that file as the run with fixup leaves it.
C29_PeersAsOnDisk ==
    (Indexed("first") /\ args.fixup)
    => \A rec \in RecsOf(result.first.index) :
          rec.peers = ModesOf(Get(result.first.tree[rec.relpath].fm, "cast-hsync"))

C26_Replaced ==
    /\ result.pc = "done"
    /\ args.old = OldFile
    /\ result.dir[args.filepath] = File(result.content)
    /\ result.content # OldFile.content

\* C27: Sync converges.  After an hsync run that ended without conflict,
\* the same run repeated at once from the same cast plans NO_OP (or
\* nothing) for every pair and leaves every note and every baseline of
\* both casts as they are.
Converged(x) ==
    /\ \A cid \in Cids : PlanOf(Now, x)[cid].op \in {"NONE", "NO_OP"}
    /\ RunCast(Now, x) = Now

C27_SyncConverges ==
    (report # NoReport /\ report.exit = 0) => Converged(report.cast)

\* C30: List canonicalization is independent of input order.  For two
\* cast-hsync lists, or two cast-codebases lists, that are permutations
\* of each other, _canonicalize_cast_lists returns the same list, names
\* that differ only in letter case included.
C30_OrderIndependent ==
    result # NoCall => result.one = result.two

====
